---- MODULE Spec2Model ----
(***************************************************************************)
(* A model of transcript-recovery/scripts/get_transcript.py.               *)
(*                                                                         *)
(* Text is a sequence of Unicode code points (naturals), so that the       *)
(* string operations of the script (split, join, slicing, lower, the       *)
(* regular expressions, json.loads) are computed character by character.   *)
(* An optional value (Python's None or a value) is a sequence of length 0  *)
(* or 1: None == <<>>, Some(x) == <<x>>.                                   *)
(***************************************************************************)
EXTENDS Integers, Sequences, FiniteSets, TLC

VARIABLES
    dir,        \* the transcript directory: file name -> raw content
    other,      \* files outside the transcript directory: path -> content
    args,       \* the parsed command line of one run of main
    pc,         \* position of the run / of the function call
    result,     \* main's local variable result
    stdout,     \* what was printed on standard output, one text per print
    stderr,     \* what was printed on the error stream, one text per print
    exitCode,   \* the exit status of the process, None while it runs
    writes,     \* the paths opened for writing by the run, in order
    call,       \* a direct call of one function: its name and arguments
    ret,        \* what that call returned
    doc         \* the structure the content of an extraction call was rendered from

vars == <<dir, other, args, pc, result, stdout, stderr, exitCode, writes, call, ret, doc>>

-----------------------------------------------------------------------------
(* Bounds of the model.                                                    *)

MaxFiles == 3       \* files in the transcript directory
MaxPieces == 4      \* pieces a generated file content is made of
MaxTail == 3        \* greatest --tail value tried
MaxElems == 2       \* elements of a generated JSON array
MaxSegs == 2        \* role segments of a generated transcript
MaxQuery == 2       \* characters of a query

-----------------------------------------------------------------------------
(* Characters and optional values.                                         *)

NL == 10            \* '\n'
SPACE == 32         \* ' '
BACKSLASH == 92     \* '\\'
LOWER_U == 117      \* 'u'
SURROGATE_LO == 55296   \* 0xD800
SURROGATE_HI == 57343   \* 0xDFFF

None == <<>>
Some(x) == <<x>>

\* Python truthiness of an optional string or an optional int.
TruthyStr(o) == o # None /\ o[1] # <<>>
TruthyInt(o) == o # None /\ o[1] # 0

-----------------------------------------------------------------------------
(* String operations.                                                      *)

Min(a, b) == IF a < b THEN a ELSE b
Max(a, b) == IF a > b THEN a ELSE b

\* s[:n] and s[n:] for n >= 0, and s[-n:] for n > 0.
Take(s, n) == SubSeq(s, 1, Min(n, Len(s)))
Drop(s, n) == SubSeq(s, Min(n, Len(s)) + 1, Len(s))
LastN(s, n) == SubSeq(s, Max(Len(s) - n, 0) + 1, Len(s))

\* s.startswith(p) at offset i (1-based): p occurs in s at position i.
MatchAt(s, i, p) ==
    /\ i + Len(p) - 1 <= Len(s)
    /\ \A k \in 1..Len(p) : s[i + k - 1] = p[k]

\* needle in hay
Contains(hay, needle) == \E i \in 1..(Len(hay) + 1) : MatchAt(hay, i, needle)

EndsWith(s, p) == Len(p) <= Len(s) /\ MatchAt(s, Len(s) - Len(p) + 1, p)

\* str.lower(), on the ASCII letters the model's texts are made of.
LowerChar(c) == IF c >= 65 /\ c <= 90 THEN c + 32 ELSE c
Lower(s) == [i \in 1..Len(s) |-> LowerChar(s[i])]

\* Python's comparison of two strings: lexicographic by code point.
RECURSIVE StrLess(_, _)
StrLess(a, b) ==
    IF b = <<>> THEN FALSE
    ELSE IF a = <<>> THEN TRUE
    ELSE IF a[1] # b[1] THEN a[1] < b[1]
    ELSE StrLess(Tail(a), Tail(b))

\* The least element of a non-empty set of integers.
MinOf(S) == CHOOSE x \in S : \A y \in S : x <= y

\* s.split(sep) for a one-character separator: never empty, ''.split gives [''].
\* The part that starts at position i ends before the next separator.
RECURSIVE SplitFrom(_, _, _)
SplitFrom(s, sep, i) ==
    LET seps == {j \in i..Len(s) : s[j] = sep}
    IN  IF seps = {} THEN <<SubSeq(s, i, Len(s))>>
        ELSE <<SubSeq(s, i, MinOf(seps) - 1)>> \o SplitFrom(s, sep, MinOf(seps) + 1)

Split(s, sep) == SplitFrom(s, sep, 1)

\* sep.join(parts)
RECURSIVE Join(_, _)
Join(parts, sep) ==
    IF parts = <<>> THEN <<>>
    ELSE IF Len(parts) = 1 THEN parts[1]
    ELSE parts[1] \o sep \o Join(Tail(parts), sep)

\* The concatenation of a sequence of texts.
Flatten(parts) == Join(parts, <<>>)

\* c * n
Repeat(c, n) == [i \in 1..n |-> c]

\* sorted(S) for a set of distinct strings.
RECURSIVE SortedNames(_)
SortedNames(S) ==
    IF S = {} THEN <<>>
    ELSE LET m == CHOOSE x \in S : \A y \in S \ {x} : StrLess(x, y)
         IN  <<m>> \o SortedNames(S \ {m})

-----------------------------------------------------------------------------
(* decode_unicode_escapes                                                  *)

IsHex(c) == (c >= 48 /\ c <= 57) \/ (c >= 65 /\ c <= 70) \/ (c >= 97 /\ c <= 102)

HexVal(c) ==
    IF c <= 57 THEN c - 48
    ELSE IF c <= 70 THEN c - 55
    ELSE c - 87

\* The pattern \\u([0-9a-fA-F]{4}) matches at position i.
EscapeAt(s, i) ==
    /\ i + 5 <= Len(s)
    /\ s[i] = BACKSLASH
    /\ s[i + 1] = LOWER_U
    /\ \A k \in 2..5 : IsHex(s[i + k])

\* int(match.group(1), 16)
EscapeCodepoint(s, i) ==
    HexVal(s[i + 2]) * 4096 + HexVal(s[i + 3]) * 256 + HexVal(s[i + 4]) * 16 + HexVal(s[i + 5])

\* re.sub over the leftmost non-overlapping matches, from position i on: an
\* escape becomes its character, a surrogate escape stays as the six characters
\* it is written with, and the text between two matches is copied.
RECURSIVE DecodeFrom(_, _)
DecodeFrom(s, i) ==
    LET found == {j \in i..Len(s) : EscapeAt(s, j)}
    IN  IF found = {} THEN SubSeq(s, i, Len(s))
        ELSE LET j == MinOf(found)
                 codepoint == EscapeCodepoint(s, j)
             IN  SubSeq(s, i, j - 1)
                   \o (IF codepoint >= SURROGATE_LO /\ codepoint <= SURROGATE_HI
                       THEN SubSeq(s, j, j + 5)
                       ELSE <<codepoint>>)
                   \o DecodeFrom(s, j + 6)

\* The closing encode(surrogatepass)/decode(replace) round trip changes only lone
\* surrogates, which neither a file read as UTF-8 nor the substitution holds.
decode_unicode_escapes(content) == DecodeFrom(content, 1)

-----------------------------------------------------------------------------
(* The transcript directory.                                               *)

TXT == <<46, 116, 120, 116>>                                        \* ".txt"
JOURNAL == <<106, 111, 117, 114, 110, 97, 108, 46, 116, 120, 116>>  \* "journal.txt"

\* TRANSCRIPTS_DIR.glob("*.txt"): the names of the directory ending in .txt
Glob(d) == {n \in DOMAIN d : EndsWith(n, TXT)}

\* st_size: the contents of the model are ASCII, one byte per character.
StSize(content) == Len(content)

\* One entry of the listing. A path is the file's name in the directory; the
\* modification time, which nothing reads, is left out.
Entry(d, n) == [name |-> n, size |-> StSize(d[n]), path |-> n]

NotJournal(n) == n # JOURNAL

get_transcript_list_nofilter(d) ==
    LET names == SortedNames(Glob(d))
    IN  [i \in 1..Len(names) |-> Entry(d, names[i])]

\* The files of sorted(glob("*.txt")) in that order, journal.txt skipped.
get_transcript_list(d) ==
    LET names == SelectSeq(SortedNames(Glob(d)), NotJournal)
    IN  [i \in 1..Len(names) |-> Entry(d, names[i])]

\* sorted(transcripts, key=name, reverse=True)[0]["path"], or None.
get_current_transcript(d) ==
    LET transcripts == get_transcript_list(d)
    IN  IF transcripts = <<>> THEN None
        ELSE LET t == CHOOSE x \in {transcripts[i] : i \in 1..Len(transcripts)} :
                        \A i \in 1..Len(transcripts) : ~StrLess(x.name, transcripts[i].name)
             IN  Some(t.path)

-----------------------------------------------------------------------------
(* read_transcript                                                         *)

read_transcript(d, path, tail) ==
    LET decoded == decode_unicode_escapes(d[path])
    IN  IF TruthyInt(tail)
        THEN LET lines == Split(decoded, NL)
             IN  Join(LastN(lines, tail[1]), <<NL>>)
        ELSE decoded

-----------------------------------------------------------------------------
(* search_transcripts                                                      *)

MAX_MATCHES == 10       \* matches[:10]
MAX_MATCH_TEXT == 200   \* line[:200]

\* The matches of lines[i..]: line numbers count from 1.
RECURSIVE MatchesFrom(_, _, _)
MatchesFrom(lines, query_lower, i) ==
    IF i > Len(lines) THEN <<>>
    ELSE IF Contains(Lower(lines[i]), query_lower)
         THEN <<[line |-> i, text |-> Take(lines[i], MAX_MATCH_TEXT)]>>
              \o MatchesFrom(lines, query_lower, i + 1)
         ELSE MatchesFrom(lines, query_lower, i + 1)

RECURSIVE SearchFrom(_, _, _, _)
SearchFrom(d, transcripts, query_lower, k) ==
    IF k > Len(transcripts) THEN <<>>
    ELSE LET t == transcripts[k]
             content == read_transcript(d, t.path, None)
         IN  IF Contains(Lower(content), query_lower)
             THEN LET matches == MatchesFrom(Split(content, NL), query_lower, 1)
                  IN  <<[file |-> t.name, matches |-> Take(matches, MAX_MATCHES)]>>
                      \o SearchFrom(d, transcripts, query_lower, k + 1)
             ELSE SearchFrom(d, transcripts, query_lower, k + 1)

search_transcripts(d, query) == SearchFrom(d, get_transcript_list(d), Lower(query), 1)

-----------------------------------------------------------------------------
(* combine_all_transcripts                                                 *)

RULE_WIDTH == 80                                                \* '='*80
EQUALS == 61                                                    \* '='
FILE_BANNER == <<61, 61, 61, 32, 70, 73, 76, 69, 58, 32>>       \* "=== FILE: "
BANNER_END == <<32, 61, 61, 61>>                                \* " ==="

\* The four entries appended to combined for one transcript.
CombinedBlock(d, t) ==
    << <<NL>> \o Repeat(EQUALS, RULE_WIDTH),
       FILE_BANNER \o t.name \o BANNER_END,
       Repeat(EQUALS, RULE_WIDTH) \o <<NL>>,
       read_transcript(d, t.path, None) >>

RECURSIVE CombinedFrom(_, _, _)
CombinedFrom(d, transcripts, k) ==
    IF k > Len(transcripts) THEN <<>>
    ELSE CombinedBlock(d, transcripts[k]) \o CombinedFrom(d, transcripts, k + 1)

\* sorted(get_transcript_list(), key=name) is the listing itself, which is
\* sorted by name already.
combine_all_transcripts(d) == Join(CombinedFrom(d, get_transcript_list(d), 1), <<NL>>)

-----------------------------------------------------------------------------
(* json.loads, for the extraction: values are tagged records.              *)

JStr(t) == [k |-> "str", v |-> t]
JNum(nonzero) == [k |-> "num", v |-> nonzero]
JBool(b) == [k |-> "bool", v |-> b]
JNull == [k |-> "null", v |-> FALSE]
JArr(items) == [k |-> "arr", v |-> items]
JObj(pairs) == [k |-> "obj", v |-> pairs]

ParseFail == [ok |-> FALSE, val |-> JNull, pos |-> 0]
ParseOk(val, pos) == [ok |-> TRUE, val |-> val, pos |-> pos]

QUOTE == 34         \* '"'
COMMA == 44         \* ','
COLON == 58         \* ':'
LBRACKET == 91      \* '['
RBRACKET == 93      \* ']'
LBRACE == 123       \* '{'
RBRACE == 125       \* '}'

IsJsonWs(c) == c \in {32, 9, 10, 13}
IsDigit(c) == c >= 48 /\ c <= 57

\* The character at position i, or 0 past the end.
At(s, i) == IF i >= 1 /\ i <= Len(s) THEN s[i] ELSE 0

\* The first position from i on that holds no white space (or no digit).
SkipWs(s, i) ==
    LET rest == {j \in i..Len(s) : ~IsJsonWs(s[j])}
    IN  IF rest = {} THEN Len(s) + 1 ELSE MinOf(rest)

SkipDigits(s, i) ==
    LET rest == {j \in i..Len(s) : ~IsDigit(s[j])}
    IN  IF rest = {} THEN Len(s) + 1 ELSE MinOf(rest)

\* A one-character escape of a JSON string: the character it stands for, or 0.
SimpleEscape(c) ==
    CASE c = 34 -> 34
      [] c = 92 -> 92
      [] c = 47 -> 47
      [] c = 98 -> 8
      [] c = 102 -> 12
      [] c = 110 -> 10
      [] c = 114 -> 13
      [] c = 116 -> 9
      [] OTHER -> 0

\* The body of a string from position j on; a control character ends the
\* parse (strict mode), a surrogate pair is kept as its two halves.
RECURSIVE ParseStringBody(_, _, _)
ParseStringBody(s, j, acc) ==
    IF j > Len(s) THEN ParseFail
    ELSE IF s[j] = QUOTE THEN ParseOk(JStr(acc), j + 1)
    ELSE IF s[j] = BACKSLASH THEN
        IF SimpleEscape(At(s, j + 1)) # 0
        THEN ParseStringBody(s, j + 2, Append(acc, SimpleEscape(At(s, j + 1))))
        ELSE IF EscapeAt(s, j)
        THEN ParseStringBody(s, j + 6, Append(acc, EscapeCodepoint(s, j)))
        ELSE ParseFail
    ELSE IF s[j] < 32 THEN ParseFail
    ELSE ParseStringBody(s, j + 1, Append(acc, s[j]))

\* -?(0|[1-9]\d*)(\.\d+)?([eE][-+]?\d+)? at position i; the value is kept as
\* whether it is non-zero, which is all the extraction reads of a number.
ParseNumber(s, i) ==
    LET j0 == IF At(s, i) = 45 THEN i + 1 ELSE i
        intEnd == IF At(s, j0) = 48 THEN j0 + 1 ELSE SkipDigits(s, j0)
        fracEnd == IF At(s, intEnd) = 46 /\ IsDigit(At(s, intEnd + 1))
                   THEN SkipDigits(s, intEnd + 1) ELSE intEnd
        expAt == IF At(s, fracEnd + 1) \in {43, 45} THEN fracEnd + 2 ELSE fracEnd + 1
        expEnd == IF At(s, fracEnd) \in {69, 101} /\ IsDigit(At(s, expAt))
                  THEN SkipDigits(s, expAt) ELSE fracEnd
    IN  IF ~IsDigit(At(s, j0)) THEN ParseFail
        ELSE ParseOk(JNum(\E j \in j0..(fracEnd - 1) : IsDigit(s[j]) /\ s[j] # 48), expEnd)

LIT_NULL == <<110, 117, 108, 108>>                          \* null
LIT_TRUE == <<116, 114, 117, 101>>                          \* true
LIT_FALSE == <<102, 97, 108, 115, 101>>                     \* false
LIT_NAN == <<78, 97, 78>>                                   \* NaN
LIT_INFINITY == <<73, 110, 102, 105, 110, 105, 116, 121>>   \* Infinity

RECURSIVE ParseValue(_, _)
RECURSIVE ParseElements(_, _, _)
RECURSIVE ParseMembers(_, _, _)

\* After the element v of an array: a comma and the next element, or the end.
AfterElement(s, v, acc) ==
    IF ~v.ok THEN ParseFail
    ELSE IF At(s, SkipWs(s, v.pos)) = COMMA
         THEN ParseElements(s, SkipWs(s, SkipWs(s, v.pos) + 1), Append(acc, v.val))
    ELSE IF At(s, SkipWs(s, v.pos)) = RBRACKET
         THEN ParseOk(JArr(Append(acc, v.val)), SkipWs(s, v.pos) + 1)
    ELSE ParseFail

\* The elements of an array, the first of which starts at j.
ParseElements(s, j, acc) == AfterElement(s, ParseValue(s, j), acc)

\* After the value v of the member named key: a comma and the next member, or
\* the end.
AfterMember(s, key, v, acc) ==
    IF ~v.ok THEN ParseFail
    ELSE IF At(s, SkipWs(s, v.pos)) = COMMA
         THEN ParseMembers(s, SkipWs(s, SkipWs(s, v.pos) + 1),
                           Append(acc, [key |-> key, val |-> v.val]))
    ELSE IF At(s, SkipWs(s, v.pos)) = RBRACE
         THEN ParseOk(JObj(Append(acc, [key |-> key, val |-> v.val])), SkipWs(s, v.pos) + 1)
    ELSE ParseFail

\* After the key of a member: a colon and its value.
AfterKey(s, key, acc) ==
    IF ~key.ok \/ At(s, SkipWs(s, key.pos)) # COLON THEN ParseFail
    ELSE AfterMember(s, key.val.v, ParseValue(s, SkipWs(s, SkipWs(s, key.pos) + 1)), acc)

\* The members of an object, the first of whose keys starts at j.
ParseMembers(s, j, acc) ==
    IF At(s, j) # QUOTE THEN ParseFail
    ELSE AfterKey(s, ParseStringBody(s, j + 1, <<>>), acc)

\* The value that starts at position i.
ParseValue(s, i) ==
    IF At(s, i) = QUOTE THEN ParseStringBody(s, i + 1, <<>>)
    ELSE IF At(s, i) = LBRACE THEN
        IF At(s, SkipWs(s, i + 1)) = RBRACE
        THEN ParseOk(JObj(<<>>), SkipWs(s, i + 1) + 1)
        ELSE ParseMembers(s, SkipWs(s, i + 1), <<>>)
    ELSE IF At(s, i) = LBRACKET THEN
        IF At(s, SkipWs(s, i + 1)) = RBRACKET
        THEN ParseOk(JArr(<<>>), SkipWs(s, i + 1) + 1)
        ELSE ParseElements(s, SkipWs(s, i + 1), <<>>)
    ELSE IF MatchAt(s, i, LIT_NULL) THEN ParseOk(JNull, i + 4)
    ELSE IF MatchAt(s, i, LIT_TRUE) THEN ParseOk(JBool(TRUE), i + 4)
    ELSE IF MatchAt(s, i, LIT_FALSE) THEN ParseOk(JBool(FALSE), i + 5)
    ELSE IF MatchAt(s, i, LIT_NAN) THEN ParseOk(JNum(TRUE), i + 3)
    ELSE IF MatchAt(s, i, LIT_INFINITY) THEN ParseOk(JNum(TRUE), i + 8)
    ELSE IF MatchAt(s, i, <<45>> \o LIT_INFINITY) THEN ParseOk(JNum(TRUE), i + 9)
    ELSE IF At(s, i) = 45 \/ IsDigit(At(s, i)) THEN ParseNumber(s, i)
    ELSE ParseFail

\* The value v is the whole text but for white space after it.
WholeText(s, v) == IF v.ok /\ SkipWs(s, v.pos) = Len(s) + 1 THEN v ELSE ParseFail

\* json.loads(s): one value, white space around it, nothing after it. A text
\* that does not parse raises JSONDecodeError (ok is FALSE).
json_loads(s) == WholeText(s, ParseValue(s, SkipWs(s, 1)))

-----------------------------------------------------------------------------
(* extract_messages                                                        *)

HUMAN_MARKER == <<10, 72, 117, 109, 97, 110, 58, 10, 67, 111, 110, 116, 101, 110, 116, 58, 10>>
ASSISTANT_MARKER ==
    <<10, 65, 115, 115, 105, 115, 116, 97, 110, 116, 58, 10, 67, 111, 110, 116, 101, 110, 116, 58, 10>>
ROLE_HUMAN == <<72, 117, 109, 97, 110>>                             \* "Human"
ROLE_ASSISTANT == <<65, 115, 115, 105, 115, 116, 97, 110, 116>>     \* "Assistant"
KEY_TYPE == <<116, 121, 112, 101>>                                  \* "type"
KEY_TEXT == <<116, 101, 120, 116>>                                  \* "text"

\* \n(Human|Assistant):\nContent:\n matches at position i.
MarkerAt(s, i) == MatchAt(s, i, HUMAN_MARKER) \/ MatchAt(s, i, ASSISTANT_MARKER)

\* re.split with one group, from position i on: the text before each match,
\* the role the group caught, and at last the text after the last match.
RECURSIVE SplitMarkersFrom(_, _)
SplitMarkersFrom(s, i) ==
    LET found == {j \in i..Len(s) : MarkerAt(s, j)}
    IN  IF found = {} THEN <<SubSeq(s, i, Len(s))>>
        ELSE LET j == MinOf(found)
                 human == MatchAt(s, j, HUMAN_MARKER)
             IN  <<SubSeq(s, i, j - 1), IF human THEN ROLE_HUMAN ELSE ROLE_ASSISTANT>>
                   \o SplitMarkersFrom(s, j + (IF human THEN Len(HUMAN_MARKER)
                                                        ELSE Len(ASSISTANT_MARKER)))

SplitMarkers(s) == SplitMarkersFrom(s, 1)

\* re.search(r'\[[\s\S]*?\n\]', s): from the first [ that a later "\n]"
\* follows to the first such "\n]"; None when there is none.
SearchArray(s) ==
    LET opens == {i \in 1..Len(s) : s[i] = LBRACKET}
        closes(i) == {k \in (i + 1)..(Len(s) - 1) : s[k] = NL /\ s[k + 1] = RBRACKET}
        starts == {i \in opens : closes(i) # {}}
    IN  IF starts = {} THEN None
        ELSE Some(SubSeq(s, MinOf(starts), MinOf(closes(MinOf(starts))) + 1))

\* str.strip(): white space removed at both ends.
IsSpace(c) == (c >= 9 /\ c <= 13) \/ (c >= 28 /\ c <= 32) \/ c = 133 \/ c = 160

Strip(t) ==
    LET keep == {i \in 1..Len(t) : ~IsSpace(t[i])}
    IN  IF keep = {} THEN <<>>
        ELSE SubSeq(t, MinOf(keep), CHOOSE x \in keep : \A y \in keep : y <= x)

\* bool(v) of a JSON value.
Truthy(v) ==
    CASE v.k = "str" -> v.v # <<>>
      [] v.k = "num" -> v.v
      [] v.k = "bool" -> v.v
      [] v.k = "null" -> FALSE
      [] v.k = "arr" -> v.v # <<>>
      [] v.k = "obj" -> v.v # <<>>

\* item.get(key) of a dict: the value of the last member with that key, or None.
DictGet(item, key) ==
    LET at == {i \in 1..Len(item.v) : item.v[i].key = key}
    IN  IF at = {} THEN JNull
        ELSE item.v[CHOOSE x \in at : \A y \in at : y <= x].val

IsTextType(v) == v.k = "str" /\ v.v = KEY_TEXT

\* What a part of the extraction comes to: the messages it appends, or that
\* an exception left it.
NoMessages == [raised |-> FALSE, messages |-> <<>>]
Raised == [raised |-> TRUE, messages |-> <<>>]

\* One part and then the rest: an exception in either leaves the function,
\* and nothing is returned.
Then(first, rest) ==
    IF first.raised \/ rest.raised THEN Raised
    ELSE [raised |-> FALSE, messages |-> first.messages \o rest.messages]

\* The text of an item of type text, stripped: a message unless it is empty.
TextOutcome(role, text) ==
    IF text.k # "str" THEN Raised
    ELSE IF Strip(text.v) # <<>> /\ Strip(text.v) # <<SPACE>>
         THEN [raised |-> FALSE, messages |-> <<[role |-> Lower(role), text |-> Strip(text.v)]>>]
    ELSE NoMessages

\* The loop body on one item: an AttributeError when the item is no dict (it
\* has no get) or when its truthy text is no string (it has no strip).
ItemOutcome(role, item) ==
    IF item.k # "obj" THEN Raised
    ELSE IF IsTextType(DictGet(item, KEY_TYPE)) /\ Truthy(DictGet(item, KEY_TEXT))
         THEN TextOutcome(role, DictGet(item, KEY_TEXT))
    ELSE NoMessages

\* for item in data, from the k-th item on.
RECURSIVE ItemsFrom(_, _, _)
ItemsFrom(role, data, k) ==
    IF k > Len(data) THEN NoMessages
    ELSE Then(ItemOutcome(role, data[k]), ItemsFrom(role, data, k + 1))

\* json.loads(match.group()) and the loop over its items; a JSONDecodeError is
\* caught and the segment passed over.
DataOutcome(role, data) ==
    IF ~data.ok THEN NoMessages ELSE ItemsFrom(role, data.val.v, 1)

\* if match: ...
MatchOutcome(role, match) ==
    IF match = None THEN NoMessages ELSE DataOutcome(role, json_loads(match[1]))

\* One pass of the loop over the parts: if role and json_content: ...
SegmentOutcome(role, json_content) ==
    IF role = <<>> \/ json_content = <<>> THEN NoMessages
    ELSE MatchOutcome(role, SearchArray(json_content))

\* for i in range(1, len(parts), 2), from i on. re.split with one group gives
\* an odd number of parts, so parts[i + 1] exists.
RECURSIVE SegmentsFrom(_, _)
SegmentsFrom(parts, i) ==
    IF i >= Len(parts) THEN NoMessages
    ELSE Then(SegmentOutcome(parts[i], parts[i + 1]), SegmentsFrom(parts, i + 2))

\* The messages returned; raised when an exception left the function, which
\* then returned nothing.
extract_messages(content) == SegmentsFrom(SplitMarkers(content), 2)

-----------------------------------------------------------------------------
(* format_messages                                                         *)

LABEL_HUMAN == <<72, 85, 77, 65, 78>>           \* "HUMAN"
LABEL_CLAUDE == <<67, 76, 65, 85, 68, 69>>      \* "CLAUDE"
ROLE_LOWER_HUMAN == <<104, 117, 109, 97, 110>>  \* "human"
ELLIPSIS == <<46, 46, 46>>                      \* "..."

\* f"\n[{role}]:\n{text}\n"
FormatMessage(msg, max_length) ==
    LET role == IF msg.role = ROLE_LOWER_HUMAN THEN LABEL_HUMAN ELSE LABEL_CLAUDE
        text == IF TruthyInt(max_length) /\ Len(msg.text) > max_length[1]
                THEN Take(msg.text, max_length[1]) \o ELLIPSIS
                ELSE msg.text
    IN  <<NL, LBRACKET>> \o role \o <<RBRACKET, COLON, NL>> \o text \o <<NL>>

format_messages(messages, max_length) ==
    Join([i \in 1..Len(messages) |-> FormatMessage(messages[i], max_length)], <<NL>>)

-----------------------------------------------------------------------------
(* main: what it prints, and the files it opens.                           *)

MSG_ERROR == <<69, 114, 114, 111, 114, 58, 32>>                         \* "Error: "
MSG_NOT_FOUND == <<32, 110, 111, 116, 32, 102, 111, 117, 110, 100>>     \* " not found"
MSG_NO_TRANSCRIPTS ==                                                   \* "No transcripts found"
    <<78, 111, 32, 116, 114, 97, 110, 115, 99, 114, 105, 112, 116, 115, 32, 102, 111, 117, 110, 100>>
MSG_CURRENT == <<67, 117, 114, 114, 101, 110, 116, 58, 32>>             \* "Current: "
MSG_SAVED == <<83, 97, 118, 101, 100, 58, 32>>                          \* "Saved: "
MSG_NO_MATCHES ==                                                       \* "No matches for: "
    <<78, 111, 32, 109, 97, 116, 99, 104, 101, 115, 32, 102, 111, 114, 58, 32>>
MSG_FOUND == <<70, 111, 117, 110, 100, 32>>                             \* "Found "
MSG_TRANSCRIPTS ==                                                      \* " transcripts:\n"
    <<32, 116, 114, 97, 110, 115, 99, 114, 105, 112, 116, 115, 58, 10>>
MSG_KB == <<32, 75, 66, 41>>                                            \* " KB)"
MSG_HEAD == <<61, 61, 61, 32>>                                          \* "=== "
MSG_TRACEBACK ==                                                        \* the interpreter's report
    <<84, 114, 97, 99, 101, 98, 97, 99, 107, 32, 40, 109, 111, 115, 116, 32, 114, 101, 99, 101,
      110, 116, 32, 99, 97, 108, 108, 32, 108, 97, 115, 116, 41, 58>>
TRANSCRIPTS_DIR == <<47, 109, 110, 116, 47, 116, 114, 97, 110, 115, 99, 114, 105, 112, 116, 115>>
SLASH == 47             \* '/'
KIBI == 1024            \* size/1024
SHOWN_MATCH_TEXT == 80  \* m['text'][:80]

\* str(n) of a natural number.
RECURSIVE Decimal(_)
Decimal(n) == IF n < 10 THEN <<48 + n>> ELSE Decimal(n \div 10) \o <<48 + (n % 10)>>

\* f"{size/1024:.1f}": size/1024 is exact in binary, so the tenths are rounded
\* from the exact quotient, a tie going to the even digit.
FormatKB(size) ==
    LET q == (size * 10) \div KIBI
        r == (size * 10) % KIBI
        tenths == IF 2 * r > KIBI \/ (2 * r = KIBI /\ q % 2 = 1) THEN q + 1 ELSE q
    IN  Decimal(tenths \div 10) \o <<46>> \o Decimal(tenths % 10)

\* The lines --list prints.
ListOutput(transcripts) ==
    <<MSG_FOUND \o Decimal(Len(transcripts)) \o MSG_TRANSCRIPTS>>
      \o [i \in 1..Len(transcripts) |->
            <<SPACE, SPACE>> \o transcripts[i].name \o <<SPACE, 40>>
              \o FormatKB(transcripts[i].size) \o MSG_KB]

\* The lines --search prints for one result, and for all of them.
ResultOutput(r) ==
    <<MSG_HEAD \o r.file \o BANNER_END>>
      \o [j \in 1..Len(r.matches) |->
            <<SPACE, SPACE, 76>> \o Decimal(r.matches[j].line) \o <<COLON, SPACE>>
              \o Take(r.matches[j].text, SHOWN_MATCH_TEXT) \o ELLIPSIS]

RECURSIVE SearchOutputFrom(_, _)
SearchOutputFrom(results, k) ==
    IF k > Len(results) THEN <<>>
    ELSE ResultOutput(results[k]) \o SearchOutputFrom(results, k + 1)

\* The branch of the if/elif chain that the arguments select.
Mode(a) ==
    IF a.list THEN "list"
    ELSE IF TruthyStr(a.search) THEN "search"
    ELSE IF a.all THEN "all"
    ELSE IF TruthyStr(a.file) THEN "file"
    ELSE "default"

\* (TRANSCRIPTS_DIR / name).exists()
Exists(d, name) == name \in DOMAIN d

\* Where a path given to open() lies: in the transcript directory when it is
\* TRANSCRIPTS_DIR/<name>, elsewhere otherwise (a relative path is taken from a
\* working directory that is not the transcript directory).
InTranscriptsDir(path) ==
    /\ MatchAt(path, 1, TRANSCRIPTS_DIR \o <<SLASH>>)
    /\ Len(path) > Len(TRANSCRIPTS_DIR) + 1
    /\ \A i \in (Len(TRANSCRIPTS_DIR) + 2)..Len(path) : path[i] # SLASH

NameInDir(path) == Drop(path, Len(TRANSCRIPTS_DIR) + 1)

\* The path open(args.output, 'w') opens: the argument as it is given.
ResolveOutput(path) == path

\* A file system with one file set to a content.
Put(fs, name, content) ==
    [n \in DOMAIN fs \cup {name} |-> IF n = name THEN content ELSE fs[n]]

WriteAppending(fs, name, content) ==
    Put(fs, name, (IF name \in DOMAIN fs THEN fs[name] ELSE <<>>) \o content)

\* open(path, 'w').write(content): the file is created or truncated.
WriteFile(fs, name, content) == Put(fs, name, content)

-----------------------------------------------------------------------------
(* Inputs.                                                                 *)

A_TXT == <<97, 46, 116, 120, 116>>              \* "a.txt"
A_DASH_TXT == <<97, 45, 46, 116, 120, 116>>     \* "a-.txt"
AB_TXT == <<97, 98, 46, 116, 120, 116>>         \* "ab.txt"
B_TXT == <<98, 46, 116, 120, 116>>              \* "b.txt"
Z_TXT == <<90, 46, 116, 120, 116>>              \* "Z.txt"
K_TXT == <<107, 46, 116, 120, 116>>             \* "k.txt"
B_LOG == <<98, 46, 108, 111, 103>>              \* "b.log"

\* Every directory of at most n files named in names with contents in contents.
Dirs(names, contents, n) ==
    UNION {[S -> contents] : S \in {T \in SUBSET names : Cardinality(T) <= n}}

NoArgs ==
    [list |-> FALSE, all |-> FALSE, file |-> None, search |-> None, tail |-> None,
     messages |-> FALSE, output |-> None, truncate |-> None]

\* The state of a run of main while a single function is called directly.
NoRun ==
    /\ args = NoArgs
    /\ other = <<>>
    /\ result = <<>>
    /\ stdout = <<>>
    /\ stderr = <<>>
    /\ exitCode = None
    /\ writes = <<>>

Return(v) ==
    /\ pc = "call"
    /\ pc' = "ret"
    /\ ret' = Some(v)
    /\ UNCHANGED <<dir, other, args, result, stdout, stderr, exitCode, writes, call, doc>>

-----------------------------------------------------------------------------
(* Generated texts.                                                        *)

\* The texts made of exactly k pieces, and of at most n pieces.
RECURSIVE TextsOfLen(_, _)
TextsOfLen(pieces, k) ==
    IF k = 0 THEN {<<>>}
    ELSE {p \o t : p \in pieces, t \in TextsOfLen(pieces, k - 1)}

Texts(pieces, n) == UNION {TextsOfLen(pieces, k) : k \in 0..n}

ESC_UPPER_A == <<92, 117, 48, 48, 52, 49>>      \* backslash u0041, which decodes to "A"
ESC_NEWLINE == <<92, 117, 48, 48, 48, 97>>      \* backslash u000a, which decodes to a line break
ESC_SURROGATE == <<92, 117, 100, 56, 48, 48>>   \* backslash ud800, a surrogate half

-----------------------------------------------------------------------------
(* main, one run of the tool.                                              *)

\* The run ends, by return or by sys.exit, with this status.
Exit(status) ==
    /\ pc' = "done"
    /\ exitCode' = Some(status)

\* --list: the listing is printed and main returns.
ListMode ==
    /\ pc = "start"
    /\ Mode(args) = "list"
    /\ stdout' = stdout \o ListOutput(get_transcript_list(dir))
    /\ Exit(0)
    /\ UNCHANGED <<dir, other, args, result, stderr, writes, call, ret, doc>>

\* --search <query>: the matches, or that there are none, are printed and
\* main returns.
SearchMode ==
    /\ pc = "start"
    /\ Mode(args) = "search"
    /\ LET results == search_transcripts(dir, args.search[1])
       IN  stdout' = stdout \o (IF results = <<>>
                                THEN <<MSG_NO_MATCHES \o args.search[1]>>
                                ELSE SearchOutputFrom(results, 1))
    /\ Exit(0)
    /\ UNCHANGED <<dir, other, args, result, stderr, writes, call, ret, doc>>

\* --all
AllMode ==
    /\ pc = "start"
    /\ Mode(args) = "all"
    /\ result' = combine_all_transcripts(dir)
    /\ pc' = "post"
    /\ UNCHANGED <<dir, other, args, stdout, stderr, exitCode, writes, call, ret, doc>>

FileNotFoundStatus0 ==
    /\ pc = "start"
    /\ Mode(args) = "file"
    /\ ~Exists(dir, args.file[1])
    /\ stdout' = Append(stdout, MSG_ERROR \o args.file[1] \o MSG_NOT_FOUND)
    /\ Exit(0)
    /\ UNCHANGED <<dir, other, args, result, stderr, writes, call, ret, doc>>

\* --file <name>, no such file: print(f"Error: {args.file} not found"); sys.exit(1)
FileNotFound ==
    /\ pc = "start"
    /\ Mode(args) = "file"
    /\ ~Exists(dir, args.file[1])
    /\ stdout' = Append(stdout, MSG_ERROR \o args.file[1] \o MSG_NOT_FOUND)
    /\ Exit(1)
    /\ UNCHANGED <<dir, other, args, result, stderr, writes, call, ret, doc>>

\* --file <name>
FileMode ==
    /\ pc = "start"
    /\ Mode(args) = "file"
    /\ Exists(dir, args.file[1])
    /\ result' = read_transcript(dir, args.file[1], args.tail)
    /\ pc' = "post"
    /\ UNCHANGED <<dir, other, args, stdout, stderr, exitCode, writes, call, ret, doc>>

\* No mode flag, no transcript: print("No transcripts found"); sys.exit(1)
NoTranscripts ==
    /\ pc = "start"
    /\ Mode(args) = "default"
    /\ get_current_transcript(dir) = None
    /\ stdout' = Append(stdout, MSG_NO_TRANSCRIPTS)
    /\ Exit(1)
    /\ UNCHANGED <<dir, other, args, result, stderr, writes, call, ret, doc>>

\* No mode flag: the current transcript, its name on the error stream first.
DefaultMode ==
    /\ pc = "start"
    /\ Mode(args) = "default"
    /\ get_current_transcript(dir) # None
    /\ LET current == get_current_transcript(dir)[1]
       IN  /\ stderr' = Append(stderr, MSG_CURRENT \o current \o <<NL>>)
           /\ result' = read_transcript(dir, current, args.tail)
    /\ pc' = "post"
    /\ UNCHANGED <<dir, other, args, stdout, exitCode, writes, call, ret, doc>>

\* if args.messages and result: messages = extract_messages(result)
MessagesStep(a, content) ==
    IF a.messages /\ content # <<>> THEN extract_messages(content) ELSE NoMessages

\* The step ends with the messages out: the result is their formatting, or
\* the content itself when no extraction was asked for.
Formatted(out) ==
    /\ ~out.raised
    /\ result' = IF args.messages /\ result # <<>>
                 THEN format_messages(out.messages, args.truncate)
                 ELSE result

PostProcess ==
    /\ pc = "post"
    /\ Formatted(MessagesStep(args, result))
    /\ pc' = "out"
    /\ UNCHANGED <<dir, other, args, stdout, stderr, exitCode, writes, call, ret, doc>>

\* The same step when extract_messages raises: nothing catches the exception,
\* the interpreter reports it on the error stream and exits with status 1.
PostProcessRaises ==
    /\ pc = "post"
    /\ MessagesStep(args, result).raised
    /\ stderr' = Append(stderr, MSG_TRACEBACK)
    /\ Exit(1)
    /\ UNCHANGED <<dir, other, args, result, stdout, writes, call, ret, doc>>

\* The write of the result to the file at path.
WriteResult(path) ==
    IF InTranscriptsDir(path)
    THEN /\ dir' = WriteFile(dir, NameInDir(path), result)
         /\ other' = other
    ELSE /\ other' = WriteFile(other, path, result)
         /\ dir' = dir

\* if args.output: the result is written and "Saved" printed; elif result: the
\* result is printed.
Output ==
    /\ pc = "out"
    /\ IF TruthyStr(args.output) THEN
          /\ WriteResult(ResolveOutput(args.output[1]))
          /\ writes' = Append(writes, ResolveOutput(args.output[1]))
          /\ stdout' = Append(stdout, MSG_SAVED \o args.output[1])
       ELSE
          /\ stdout' = IF result # <<>> THEN Append(stdout, result) ELSE stdout
          /\ UNCHANGED <<dir, other, writes>>
    /\ Exit(0)
    /\ UNCHANGED <<args, result, stderr, call, ret, doc>>

Next ==
    \/ ListMode
    \/ SearchMode
    \/ AllMode
    \/ FileNotFound
    \/ FileMode
    \/ NoTranscripts
    \/ DefaultMode
    \/ PostProcess
    \/ PostProcessRaises
    \/ Output

\* Contents of the transcripts of a run: no line, two lines without and with a
\* last line break, one human message, and an array with an element that is no
\* object.
TEXT_TWO_LINES == <<120, 10, 121>>
TEXT_TWO_LINES_NL == <<120, 10, 121, 10>>
TEXT_ONE_MESSAGE ==
    <<10, 72, 117, 109, 97, 110, 58, 10, 67, 111, 110, 116, 101, 110, 116, 58, 10, 91, 10, 123,
      34, 116, 121, 112, 101, 34, 58, 34, 116, 101, 120, 116, 34, 44, 34, 116, 101, 120, 116, 34,
      58, 34, 104, 105, 34, 125, 10, 93, 10>>
TEXT_NUMBER_ELEMENT ==
    <<10, 65, 115, 115, 105, 115, 116, 97, 110, 116, 58, 10, 67, 111, 110, 116, 101, 110, 116, 58,
      10, 91, 10, 49, 10, 93, 10>>
OUT_RELATIVE == A_TXT                           \* a.txt in the working directory
OUT_TRANSCRIPT ==                               \* /mnt/transcripts/a.txt
    <<47, 109, 110, 116, 47, 116, 114, 97, 110, 115, 99, 114, 105, 112, 116, 115, 47, 97, 46, 116,
      120, 116>>
OUT_NEW_TRANSCRIPT ==                           \* /mnt/transcripts/n.txt
    <<47, 109, 110, 116, 47, 116, 114, 97, 110, 115, 99, 114, 105, 112, 116, 115, 47, 110, 46, 116,
      120, 116>>
OLD_CONTENT == <<111, 108, 100>>                \* "old"

MainDirs ==
    {d \in Dirs({A_TXT, K_TXT, JOURNAL},
                {<<>>, TEXT_TWO_LINES, TEXT_TWO_LINES_NL, TEXT_ONE_MESSAGE, TEXT_NUMBER_ELEMENT},
                MaxFiles) :
        /\ K_TXT \in DOMAIN d => d[K_TXT] = TEXT_TWO_LINES_NL
        /\ JOURNAL \in DOMAIN d => d[JOURNAL] = TEXT_TWO_LINES}

MainArgs ==
    [list : BOOLEAN,
     all : BOOLEAN,
     file : {None, Some(<<>>), Some(A_TXT), Some(K_TXT)},
     search : {None, Some(<<>>), Some(<<120>>)},
     tail : {None} \cup {Some(n) : n \in 0..(MaxTail - 1)},
     messages : BOOLEAN,
     output : {None, Some(<<>>), Some(OUT_RELATIVE), Some(OUT_TRANSCRIPT), Some(OUT_NEW_TRANSCRIPT)},
     truncate : {None, Some(1)}]

Init ==
    /\ dir \in MainDirs
    /\ other = [n \in {OUT_RELATIVE} |-> OLD_CONTENT]
    /\ args \in MainArgs
    /\ pc = "start"
    /\ result = <<>>
    /\ stdout = <<>>
    /\ stderr = <<>>
    /\ exitCode = None
    /\ writes = <<>>
    /\ call = <<>>
    /\ ret = None
    /\ doc = <<>>

Spec == Init /\ [][Next]_vars

-----------------------------------------------------------------------------
(* Direct calls of get_transcript_list and get_current_transcript.         *)

ListNames == {A_TXT, A_DASH_TXT, AB_TXT, Z_TXT, K_TXT, JOURNAL, B_LOG}
ListContents == {<<>>, <<120, 10>>}

ListInit ==
    /\ dir \in Dirs(ListNames, ListContents, MaxFiles)
    /\ call \in {[fn |-> "get_transcript_list"], [fn |-> "get_current_transcript"]}
    /\ pc = "call"
    /\ ret = None
    /\ doc = <<>>
    /\ NoRun

CallGetTranscriptList ==
    /\ call.fn = "get_transcript_list"
    /\ Return(get_transcript_list(dir))

CallGetCurrentTranscript ==
    /\ call.fn = "get_current_transcript"
    /\ Return(get_current_transcript(dir))

ListNext == CallGetTranscriptList \/ CallGetCurrentTranscript

SpecList == ListInit /\ [][ListNext]_vars

\* The transcripts of the directory: its .txt files other than the reserved one.
Transcripts(d) == {n \in DOMAIN d : EndsWith(n, TXT) /\ n # JOURNAL}

\* C7: get_transcript_list returns exactly the non-reserved .txt files, never
\* journal.txt, in strictly ascending order of file name; get_current_transcript
\* returns the lexicographically greatest of them, never journal.txt, and None
\* exactly when the directory holds no non-reserved transcript.
C7_ListingAndCurrent ==
    /\ (pc = "ret" /\ call.fn = "get_transcript_list") =>
          LET l == ret[1]
          IN  /\ \A i \in 1..Len(l) : l[i].name # JOURNAL
              /\ {l[i].name : i \in 1..Len(l)} = Transcripts(dir)
              /\ \A i \in 1..(Len(l) - 1) : StrLess(l[i].name, l[i + 1].name)
    /\ (pc = "ret" /\ call.fn = "get_current_transcript") =>
          LET c == ret[1]
          IN  /\ (c = None) <=> (Transcripts(dir) = {})
              /\ c # None =>
                    /\ c[1] \in Transcripts(dir)
                    /\ \A n \in Transcripts(dir) : n = c[1] \/ StrLess(n, c[1])

\* journal.txt lies in the directory between two transcripts and a call returned.
C7_Witness ==
    /\ pc = "ret"
    /\ {JOURNAL, A_TXT, K_TXT} \subseteq DOMAIN dir
    /\ call.fn = "get_current_transcript"
    /\ ret[1] = Some(K_TXT)

-----------------------------------------------------------------------------
(* Direct calls of read_transcript.                                        *)

ReadPieces == {<<120>>, <<121>>, <<NL>>, ESC_UPPER_A}
ReadContents == Texts(ReadPieces, MaxPieces) \cup {ESC_NEWLINE \o <<120>>, <<120>> \o ESC_SURROGATE}
Tails == {None} \cup {Some(n) : n \in 0..MaxTail}

ReadInit ==
    /\ \E c \in ReadContents : dir = [n \in {A_TXT} |-> c]
    /\ \E t \in Tails : call = [fn |-> "read_transcript", path |-> A_TXT, tail |-> t]
    /\ pc = "call"
    /\ ret = None
    /\ doc = <<>>
    /\ NoRun

CallReadTranscript ==
    /\ call.fn = "read_transcript"
    /\ Return(read_transcript(dir, call.path, call.tail))

ReadNext == CallReadTranscript

SpecRead == ReadInit /\ [][ReadNext]_vars

\* The number of lines of a text: its line breaks, and a last line that no
\* line break ends.
NumLines(text) ==
    Cardinality({i \in 1..Len(text) : text[i] = NL})
      + (IF text # <<>> /\ text[Len(text)] # NL THEN 1 ELSE 0)

\* The positions at which a line of the text begins.
LineStarts(text) ==
    {i \in 1..Len(text) : i = 1 \/ text[i - 1] = NL}

\* The last n lines of a text with their line breaks; the whole text when it
\* has no more than n lines.
LastLines(text, n) ==
    IF NumLines(text) <= n THEN text
    ELSE LET start == CHOOSE p \in LineStarts(text) :
                        Cardinality({q \in LineStarts(text) : q >= p}) = n
         IN  SubSeq(text, start, Len(text))

\* C5: read_transcript with tail n, 1 <= n <= L, on a file of L lines returns
\* exactly the last n lines of the decoded file, also when the file ends with
\* a line break; without a tail it returns the whole decoded content.
C5_TailReturnsLastLines ==
    (pc = "ret" /\ call.fn = "read_transcript") =>
        LET decoded == decode_unicode_escapes(dir[call.path])
        IN  /\ call.tail = None => ret[1] = decoded
            /\ (call.tail # None /\ call.tail[1] >= 1 /\ call.tail[1] <= NumLines(decoded)) =>
                  ret[1] = LastLines(decoded, call.tail[1])

\* C5, files that do not end with a line break: there the claim holds.
C5_TailNoTrailingBreak ==
    (pc = "ret" /\ call.fn = "read_transcript") =>
        LET decoded == decode_unicode_escapes(dir[call.path])
        IN  (/\ call.tail # None /\ call.tail[1] >= 1 /\ call.tail[1] <= NumLines(decoded)
             /\ decoded[Len(decoded)] # NL) =>
                  ret[1] = LastLines(decoded, call.tail[1])

-----------------------------------------------------------------------------
(* Direct calls of search_transcripts.                                     *)

\* The texts are made of "a" (97), "A" (65), "b" (98) and line breaks.
\* Twelve matching lines, and a matching line of 201 characters.
ManyLines == Join(Repeat(<<97, 98>>, MAX_MATCHES + 2), <<NL>>)
LongLine == Repeat(98, MAX_MATCH_TEXT) \o <<97>>

SearchContents ==
    Texts({<<97>>, <<65>>, <<98>>, <<NL>>}, MaxPieces - 1)
      \cup {ManyLines, LongLine, <<98, NL>> \o LongLine}
Queries == Texts({<<97>>, <<65>>, <<NL>>}, MaxQuery)

SearchInit ==
    /\ \E c1 \in SearchContents, c2 \in {<<>>, <<65, NL, 98>>, ManyLines} :
          dir \in {[n \in {A_TXT} |-> c1],
                   [n \in {A_TXT, B_TXT} |-> IF n = A_TXT THEN c1 ELSE c2],
                   [n \in {A_TXT, JOURNAL} |-> IF n = A_TXT THEN c2 ELSE c1]}
    /\ \E q \in Queries : call = [fn |-> "search_transcripts", query |-> q]
    /\ pc = "call"
    /\ ret = None
    /\ doc = <<>>
    /\ NoRun

CallSearchTranscripts ==
    /\ call.fn = "search_transcripts"
    /\ Return(search_transcripts(dir, call.query))

SearchNext == CallSearchTranscripts

SpecSearch == SearchInit /\ [][SearchNext]_vars

\* The numbers of the lines of a decoded file that contain the query, letter
\* case ignored.
MatchingLines(content, query) ==
    LET lines == Split(content, NL)
    IN  {i \in 1..Len(lines) : Contains(Lower(lines[i]), Lower(query))}

\* The matches of one result are the first 10 matching lines at most, with
\* their 1-based numbers in increasing order and the 200-character prefix of
\* each line.
MatchesAreFirstMatchingLines(r) ==
    LET content == decode_unicode_escapes(dir[r.file])
        lines == Split(content, NL)
        hits == MatchingLines(content, call.query)
    IN  /\ Len(r.matches) = Min(Cardinality(hits), MAX_MATCHES)
        /\ \A k \in 1..Len(r.matches) :
              /\ r.matches[k].line \in hits
              /\ Cardinality({h \in hits : h < r.matches[k].line}) = k - 1
              /\ r.matches[k].text = Take(lines[r.matches[k].line], MAX_MATCH_TEXT)
              /\ Len(r.matches[k].text) <= MAX_MATCH_TEXT

\* C6: every result of search_transcripts has at least one match, and its
\* matches are the first 10 matching lines at most, numbered from 1 in
\* strictly increasing order, each text the 200-character prefix of its line.
C6_EveryResultHasAMatch ==
    (pc = "ret" /\ call.fn = "search_transcripts") =>
        \A k \in 1..Len(ret[1]) :
            /\ ret[1][k].matches # <<>>
            /\ MatchesAreFirstMatchingLines(ret[1][k])

\* C6 without its first part: the matches that are reported are the first 10
\* matching lines at most, in order, each cut to 200 characters, and a file with
\* a matching line is reported.
C6_MatchesAreFirstTen ==
    (pc = "ret" /\ call.fn = "search_transcripts") =>
        /\ \A k \in 1..Len(ret[1]) : MatchesAreFirstMatchingLines(ret[1][k])
        /\ \A n \in Transcripts(dir) :
              MatchingLines(decode_unicode_escapes(dir[n]), call.query) # {}
                => \E k \in 1..Len(ret[1]) : ret[1][k].file = n

-----------------------------------------------------------------------------
(* Direct calls of extract_messages.                                       *)

\* The source texts of the elements of a generated array.
E_HI ==      \* {"type":"text","text":"hi"}
    <<123, 34, 116, 121, 112, 101, 34, 58, 34, 116, 101, 120, 116, 34, 44, 34, 116, 101, 120, 116,
      34, 58, 34, 104, 105, 34, 125>>
E_PADDED ==      \* {"type":"text","text":" yo "}
    <<123, 34, 116, 121, 112, 101, 34, 58, 34, 116, 101, 120, 116, 34, 44, 34, 116, 101, 120, 116,
      34, 58, 34, 32, 121, 111, 32, 34, 125>>
E_SPACE ==      \* {"type":"text","text":" "}
    <<123, 34, 116, 121, 112, 101, 34, 58, 34, 116, 101, 120, 116, 34, 44, 34, 116, 101, 120, 116,
      34, 58, 34, 32, 34, 125>>
E_TWO_SPACES ==      \* {"type":"text","text":"  "}
    <<123, 34, 116, 121, 112, 101, 34, 58, 34, 116, 101, 120, 116, 34, 44, 34, 116, 101, 120, 116,
      34, 58, 34, 32, 32, 34, 125>>
E_IMAGE ==      \* {"type":"image","text":"hi"}
    <<123, 34, 116, 121, 112, 101, 34, 58, 34, 105, 109, 97, 103, 101, 34, 44, 34, 116, 101, 120,
      116, 34, 58, 34, 104, 105, 34, 125>>
E_NUMBER ==      \* 1
    <<49>>
E_BROKEN ==      \* {"type":"text",
    <<123, 34, 116, 121, 112, 101, 34, 58, 34, 116, 101, 120, 116, 34, 44>>

\* What an element is, apart from how it is written: its type and text when it
\* is an object, whether it is an object, whether it is JSON at all.
ElementKinds ==
    { [src |-> E_HI, json |-> TRUE, object |-> TRUE, type |-> KEY_TEXT, text |-> <<104, 105>>],
      [src |-> E_PADDED, json |-> TRUE, object |-> TRUE, type |-> KEY_TEXT, text |-> <<32, 121, 111, 32>>],
      [src |-> E_SPACE, json |-> TRUE, object |-> TRUE, type |-> KEY_TEXT, text |-> <<32>>],
      [src |-> E_TWO_SPACES, json |-> TRUE, object |-> TRUE, type |-> KEY_TEXT, text |-> <<32, 32>>],
      [src |-> E_IMAGE, json |-> TRUE, object |-> TRUE, type |-> <<105, 109, 97, 103, 101>>, text |-> <<104, 105>>],
      [src |-> E_NUMBER, json |-> TRUE, object |-> FALSE, type |-> <<>>, text |-> <<>>],
      [src |-> E_BROKEN, json |-> FALSE, object |-> FALSE, type |-> <<>>, text |-> <<>>] }

\* The sequences of at most n elements of a set.
SeqsUpTo(S, n) == UNION {[1..k -> S] : k \in 0..n}

\* A segment: a role marker and an array, written one element a line with the
\* closing bracket on a line of its own, or on a single line.
Segments ==
    [role : {ROLE_HUMAN, ROLE_ASSISTANT}, lines : BOOLEAN, elems : SeqsUpTo(ElementKinds, MaxElems)]

\* A transcript: segments, after a first line or from the first character on.
Docs == [bare : BOOLEAN, segs : SeqsUpTo(Segments, MaxSegs)]

RenderArray(seg) ==
    LET srcs == [i \in 1..Len(seg.elems) |-> seg.elems[i].src]
    IN  IF seg.lines
        THEN <<LBRACKET, NL>> \o Join(srcs, <<COMMA, NL>>) \o <<NL, RBRACKET>>
        ELSE <<LBRACKET>> \o Join(srcs, <<COMMA>>) \o <<RBRACKET>>

\* "\n<Role>:\nContent:\n<array>\n"
RenderSegment(seg) ==
    <<NL>> \o seg.role \o <<COLON, NL>> \o <<67, 111, 110, 116, 101, 110, 116, 58, 10>>
      \o RenderArray(seg) \o <<NL>>

\* The text of a transcript; a bare one starts with the first marker itself,
\* without the line break before it.
Render(d) ==
    LET text == Flatten([i \in 1..Len(d.segs) |-> RenderSegment(d.segs[i])])
    IN  IF d.bare /\ text # <<>> THEN Tail(text) ELSE text

ExtractInit ==
    /\ doc \in Docs
    /\ call = [fn |-> "extract_messages", content |-> Render(doc)]
    /\ pc = "call"
    /\ ret = None
    /\ dir = <<>>
    /\ NoRun

CallExtractMessages ==
    /\ call.fn = "extract_messages"
    /\ Return(extract_messages(call.content))

ExtractNext == CallExtractMessages

SpecExtract == ExtractInit /\ [][ExtractNext]_vars

\* The array of a segment is well-formed JSON.
WellFormed(seg) == \A i \in 1..Len(seg.elems) : seg.elems[i].json

\* C8's condition on an element: its type is text and its text field is
\* neither empty nor just a single space.
IsTextElement(e) == e.object /\ e.type = KEY_TEXT /\ e.text # <<>> /\ e.text # <<SPACE>>

\* The text without the white space at its ends.
Trimmed(t) ==
    LET keep == {i \in 1..Len(t) : t[i] # SPACE}
    IN  IF keep = {} THEN <<>>
        ELSE SubSeq(t, CHOOSE a \in keep : \A b \in keep : a <= b,
                       CHOOSE a \in keep : \A b \in keep : b <= a)

\* The messages C8 expects of one segment, and of a transcript.
ExpectedOfSegment(seg) ==
    IF ~WellFormed(seg) THEN <<>>
    ELSE LET texts == SelectSeq(seg.elems, IsTextElement)
         IN  [i \in 1..Len(texts) |-> [role |-> Lower(seg.role), text |-> Trimmed(texts[i].text)]]

RECURSIVE ExpectedFrom(_, _)
ExpectedFrom(segs, k) ==
    IF k > Len(segs) THEN <<>>
    ELSE ExpectedOfSegment(segs[k]) \o ExpectedFrom(segs, k + 1)

\* C8: for every role marker followed by a well-formed array, one message for
\* each element of type text whose text is neither empty nor a single space,
\* in order, with the role in lower case and the text trimmed; no other.
C8_ExtractsEveryTextElement ==
    (pc = "ret" /\ call.fn = "extract_messages") =>
        /\ ~ret[1].raised
        /\ ret[1].messages = ExpectedFrom(doc.segs, 1)

\* The messages of every message are of one of the two roles, in lower case.
C8_RolesAreKnown ==
    (pc = "ret" /\ call.fn = "extract_messages") =>
        \A i \in 1..Len(ret[1].messages) :
            ret[1].messages[i].role \in {ROLE_LOWER_HUMAN, Lower(ROLE_ASSISTANT)}

\* What extract_messages returns of a segment that stands alone, written as
\* it is in the transcript.
AloneFrom(d, k) ==
    extract_messages(Render([bare |-> d.bare /\ k = 1, segs |-> <<d.segs[k]>>])).messages

\* The messages of the segments that parse, each taken alone, in order.
RECURSIVE ParsableFrom(_, _)
ParsableFrom(d, k) ==
    IF k > Len(d.segs) THEN <<>>
    ELSE (IF WellFormed(d.segs[k]) THEN AloneFrom(d, k) ELSE <<>>) \o ParsableFrom(d, k + 1)

\* C9: extract_messages never raises; a segment whose array does not parse
\* gives no message, and the messages of the other segments are all returned.
C9_NeverRaisesSkipsMalformed ==
    (pc = "ret" /\ call.fn = "extract_messages") =>
        /\ ~ret[1].raised
        /\ ret[1].messages = ParsableFrom(doc, 1)

\* C9 on its first part alone: when extract_messages returns, a segment whose
\* array does not parse has given no message and the others have given theirs.
C9_MalformedSegmentsSkipped ==
    (pc = "ret" /\ call.fn = "extract_messages" /\ ~ret[1].raised) =>
        ret[1].messages = ParsableFrom(doc, 1)

-----------------------------------------------------------------------------
(* Claims about a run of main.                                             *)

\* --file names a file that the transcript directory does not hold.
NamedFileMissing == TruthyStr(args.file) /\ args.file[1] \notin DOMAIN dir

\* The error message of a missing file was printed last on standard output.
PrintedNotFound(out, name) ==
    /\ out # <<>>
    /\ MatchAt(out[Len(out)], 1, MSG_ERROR)
    /\ Contains(out[Len(out)], name)

\* C1 as stated: whatever the other flags, a run whose --file names a missing
\* file ends at once with status 1 and an error message holding the file name.
C1_MissingFileAlwaysFails ==
    [][(pc = "start" /\ NamedFileMissing) =>
          (pc' = "done" /\ exitCode' = Some(1) /\ PrintedNotFound(stdout', args.file[1]))]_vars

\* C1 amended: a run whose --file names a missing file, without --list,
\* without a non-empty --search and without --all, ends at once with status 1
\* and an error message holding the file name, whatever --tail, --messages,
\* --output and --truncate are.
C1_MissingFileFails ==
    [][(pc = "start" /\ NamedFileMissing
          /\ ~args.list /\ ~TruthyStr(args.search) /\ ~args.all) =>
          (pc' = "done" /\ exitCode' = Some(1) /\ PrintedNotFound(stdout', args.file[1]))]_vars

\* A run with --tail, --messages and --output that failed on a missing file.
C1_Witness ==
    /\ pc = "done"
    /\ NamedFileMissing
    /\ args.messages /\ TruthyInt(args.tail) /\ TruthyStr(args.output)
    /\ exitCode = Some(1)
    /\ stdout = <<MSG_ERROR \o K_TXT \o MSG_NOT_FOUND>>

\* The run failed in one of the two explicit ways: files are only ever added,
\* so a file missing at the end was missing when the run chose its branch.
FailedOnMissingFile == pc = "done" /\ Mode(args) = "file" /\ args.file[1] \notin DOMAIN dir
FailedOnNoTranscripts == pc = "done" /\ Mode(args) = "default" /\ Transcripts(dir) = {}

\* C2: both failures end with a non-zero status and a message on the error
\* stream, nothing on standard output.
C2_FailuresOnErrorStream ==
    (FailedOnMissingFile \/ FailedOnNoTranscripts) =>
        /\ exitCode # None /\ exitCode # Some(0)
        /\ stderr # <<>>
        /\ stdout = <<>>

\* C2, what the code does: both failures end with status 1 and their message
\* on standard output, nothing on the error stream.
C2_FailuresOnStandardOutput ==
    /\ FailedOnMissingFile =>
          /\ exitCode = Some(1)
          /\ stdout = <<MSG_ERROR \o args.file[1] \o MSG_NOT_FOUND>>
          /\ stderr = <<>>
    /\ FailedOnNoTranscripts =>
          /\ exitCode = Some(1)
          /\ stdout = <<MSG_NO_TRANSCRIPTS>>
          /\ stderr = <<>>

\* The greatest name of a non-empty set of names.
GreatestName(S) == CHOOSE x \in S : \A y \in S : y = x \/ StrLess(y, x)

\* The content a run selects: all transcripts combined, the named file
\* decoded, or the current transcript decoded.
SelectedContent ==
    CASE Mode(args) = "all" -> combine_all_transcripts(dir)
      [] Mode(args) = "file" -> decode_unicode_escapes(dir[args.file[1]])
      [] Mode(args) = "default" -> decode_unicode_escapes(dir[GreatestName(Transcripts(dir))])

\* C3: with --tail n, n >= 1, the content that main goes on to post-process
\* and output is the last n lines of the selected content, in each of the
\* modes --all, --file and default.
C3_TailKeepsLastLines ==
    (pc = "post" /\ args.tail # None /\ args.tail[1] >= 1) =>
        result = LastLines(SelectedContent, args.tail[1])

\* The transcripts of a directory with their contents.
TranscriptFiles(d) == [n \in Transcripts(d) |-> d[n]]

\* --output names a transcript of the transcript directory.
OutputNamesTranscript ==
    /\ TruthyStr(args.output)
    /\ InTranscriptsDir(args.output[1])
    /\ EndsWith(args.output[1], TXT)
    /\ NameInDir(args.output[1]) # JOURNAL

\* C4: no step of a run, whatever the flags and the --output path, creates,
\* changes or deletes a transcript.
C4_TranscriptsNeverChange ==
    [][TranscriptFiles(dir') = TranscriptFiles(dir)]_vars

\* The only step that changes a transcript is the write of the result to an
\* --output path that names a transcript of the transcript directory.
C4_TranscriptsChangeOnlyByOutput ==
    [][~OutputNamesTranscript => TranscriptFiles(dir') = TranscriptFiles(dir)]_vars

\* The content of the file at a path.
FileAt(path) == IF InTranscriptsDir(path) THEN dir[NameInDir(path)] ELSE other[path]

\* The run wrote its result to the --output path and to no other file, and
\* printed on standard output only that it saved it.
ResultWritten ==
    /\ writes = <<args.output[1]>>
    /\ FileAt(args.output[1]) = result
    /\ stdout = <<MSG_SAVED \o args.output[1]>>

\* C10 as stated: in every mode a run with --output that ends with status 0
\* has written its result to that file instead of printing it.
C10_OutputInEveryMode ==
    (pc = "done" /\ exitCode = Some(0) /\ TruthyStr(args.output)) => ResultWritten

\* C10 amended: in the modes --all, --file and default, a run with --output
\* that ends with status 0 has written its result to that file, overwriting
\* it, and has not printed it; a run writes at most one file, and none without
\* --output, in the modes --list and --search, or when it ends with status 1.
C10_OutputWritten ==
    /\ Len(writes) <= 1
    /\ pc = "done" =>
          /\ ~TruthyStr(args.output) => writes = <<>>
          /\ (args.list \/ TruthyStr(args.search) \/ exitCode = Some(1)) => writes = <<>>
          /\ (TruthyStr(args.output) /\ ~args.list /\ ~TruthyStr(args.search)
                /\ exitCode = Some(0)) => ResultWritten
    /\ pc # "done" => writes = <<>>

\* A run that overwrote an existing file with a result that is not empty.
C10_Witness ==
    /\ pc = "done"
    /\ args.output = Some(OUT_RELATIVE)
    /\ writes = <<OUT_RELATIVE>>
    /\ result # <<>>
    /\ other[OUT_RELATIVE] = result

====
